---- MODULE Spec2Model ----
(***************************************************************************)
(* A model of the masking engine of credential-masker (src/cmd/mask.go)    *)
(* and of the process around it (src/cmd/main.go).                         *)
(*                                                                         *)
(* Strings are sequences of one-character strings; a path is a sequence of *)
(* path tokens.  The file system is a function from paths to contents.     *)
(***************************************************************************)
EXTENDS Integers, Sequences, FiniteSets, TLC

VARIABLES
    flags,           \* the command line: --findings, --source, --target, --log-level
    sourceDir,       \* Masker.sourceDir
    targetDir,       \* Masker.targetDir
    findingsIn,      \* the []finding handed to NewMasker
    m_findings,      \* Masker.findings: rewritten path -> sequence of findings
    fs,              \* the file system: path -> content, or NoFile
    fsLog,           \* set of <<operation, path>> performed on the file system
    ctxDone,         \* the context handed to ProcessWithContext is cancelled
    dpc,             \* position of the goroutine that runs ProcessWithContext
    pending,         \* keys of m.findings the range loop has not yet visited
    cur,             \* the key of the current loop iteration
    sem,             \* number of slots held in the semaphore channel
    wg,              \* the WaitGroup counter of ProcessWithContext
    currentFileIdx,  \* ProcessWithContext's progress counter
    task,            \* per file group: the state of its goroutine
    launchedAfterCancel, \* keys whose goroutine was launched with ctxDone set
    mpc,             \* position of the main goroutine
    doneClosed,      \* main's done channel is closed
    logged,          \* the kinds of messages main and ProcessWithContext logged
    outcome          \* "running", "exit0", "exit1" or "panic"

vars == <<flags, sourceDir, targetDir, findingsIn, m_findings, fs, fsLog, ctxDone, dpc,
          pending, cur, sem, wg, currentFileIdx, task, launchedAfterCancel, mpc,
          doneClosed, logged, outcome>>

procVars == <<dpc, pending, cur, sem, wg, currentFileIdx, launchedAfterCancel,
              mpc, doneClosed, logged>>

-----------------------------------------------------------------------------
(* Bounds of the model *)

\* runtime.NumCPU(): the semaphore capacity and the number of chunk workers
NumCPU == 2

\* largest number of lines of a text buffer handed to HandleText directly
MaxLines == 3

\* largest number of findings handed to HandleText directly
MaxFindings == 2

-----------------------------------------------------------------------------
(* Strings *)

NL == "\n"

\* a byte that is not valid UTF-8
BadByte == "xFF"

\* what a path holds when there is no file at it
NoFile == <<"NoFile">>

placeholderMask == <<"*", "R", "*">>

placeholderPrefix == <<"d", "e", "l", ":">>

PKCS12 == "pkcs12-file"

\* s[i..] starts with p
HasPrefixAt(s, i, p) ==
    /\ i + Len(p) - 1 <= Len(s)
    /\ SubSeq(s, i, i + Len(p) - 1) = p

\* strings.Index from position i (1-based); 0 when p does not occur
RECURSIVE IndexFrom(_, _, _)
IndexFrom(s, p, i) ==
    IF i + Len(p) - 1 > Len(s) THEN 0
    ELSE IF HasPrefixAt(s, i, p) THEN i
    ELSE IndexFrom(s, p, i + 1)

Contains(s, p) == IndexFrom(s, p, 1) # 0

\* strings.Split(s, sep) for a non-empty separator
RECURSIVE Split(_, _)
Split(s, sep) ==
    LET j == IndexFrom(s, sep, 1)
    IN  IF j = 0 THEN <<s>>
        ELSE <<SubSeq(s, 1, j - 1)>> \o Split(SubSeq(s, j + Len(sep), Len(s)), sep)

\* strings.Join(ls, sep)
RECURSIVE Join(_, _)
Join(ls, sep) ==
    IF Len(ls) = 0 THEN <<>>
    ELSE IF Len(ls) = 1 THEN ls[1]
    ELSE ls[1] \o sep \o Join(Tail(ls), sep)

\* strings.NewReplacer(old, new).Replace(s): every non-overlapping occurrence
\* of old, left to right; an empty old matches before every character and at
\* the end
RECURSIVE Replace(_, _, _)
Replace(s, old, new) ==
    IF Len(old) = 0
    THEN IF Len(s) = 0 THEN new
         ELSE new \o <<s[1]>> \o Replace(Tail(s), old, new)
    ELSE IF Len(s) = 0 THEN <<>>
    ELSE IF HasPrefixAt(s, 1, old)
         THEN new \o Replace(SubSeq(s, Len(old) + 1, Len(s)), old, new)
         ELSE <<s[1]>> \o Replace(Tail(s), old, new)

\* strings.TrimSuffix(s, suffix)
TrimSuffix(s, suffix) ==
    IF Len(s) >= Len(suffix) /\ SubSeq(s, Len(s) - Len(suffix) + 1, Len(s)) = suffix
    THEN SubSeq(s, 1, Len(s) - Len(suffix))
    ELSE s

\* utf8.Valid(buf)
Utf8Valid(buf) == \A i \in 1..Len(buf) : buf[i] # BadByte

\* strings.HasPrefix(s, p)
HasPrefix(s, p) == HasPrefixAt(s, 1, p)

\* all sequences over S of length 0..n
RECURSIVE SeqUpTo(_, _)
SeqUpTo(S, n) ==
    IF n = 0 THEN {<<>>}
    ELSE LET R == SeqUpTo(S, n - 1)
         IN  R \cup {Append(r, x) : r \in {q \in R : Len(q) = n - 1}, x \in S}

Max(a, b) == IF a >= b THEN a ELSE b

-----------------------------------------------------------------------------
(* The command line (config.go) *)

\* the letters of the model's flag values that strings.ToUpper changes
UpperOf ==
    ("d" :> "D") @@ ("e" :> "E") @@ ("b" :> "B") @@ ("u" :> "U") @@ ("g" :> "G")

\* strings.ToUpper(s)
ToUpper(s) ==
    [i \in 1..Len(s) |-> IF s[i] \in DOMAIN UpperOf THEN UpperOf[s[i]] ELSE s[i]]

\* the names ParseLogLevel knows (config.go, lines 103-118)
LogLevels ==
    { <<"D", "E", "B", "U", "G">>, <<"I", "N", "F", "O">>,
      <<"S", "U", "C", "C", "E", "S", "S">>, <<"W", "A", "R", "N", "I", "N", "G">>,
      <<"E", "R", "R", "O", "R">>, <<"F", "A", "T", "A", "L">> }

\* ParseLogLevel(level) returns an error
BadLogLevel(level) == ToUpper(level) \notin LogLevels

\* filepath.Clean(p) for a path without . and .. elements and without doubled
\* separators: trailing separators go, the empty path becomes "."
RECURSIVE Clean(_)
Clean(p) ==
    IF p = <<>> THEN <<".">>
    ELSE IF Len(p) > 1 /\ p[Len(p)] = "/" THEN Clean(SubSeq(p, 1, Len(p) - 1))
    ELSE p

\* C35's mutant of FlagsError: the check of --target is missing
FlagsError_NoTarget(f) ==
    IF f.findings = <<>> THEN "findings"
    ELSE IF f.source = <<>> THEN "source"
    ELSE IF BadLogLevel(f.logLevel) THEN "log level"
    ELSE "none"

\* the error parseAndValidateFlags returns, "none" when it returns a config
\* (config.go, lines 24-38)
FlagsError(f) ==
    IF f.findings = <<>> THEN "findings"
    ELSE IF f.source = <<>> THEN "source"
    ELSE IF f.target = <<>> THEN "target"
    ELSE IF BadLogLevel(f.logLevel) THEN "log level"
    ELSE "none"

\* a command line that parseAndValidateFlags accepts
DefaultFlags ==
    [findings |-> <<"gitleaks">>, source |-> <<"src">>, target |-> <<"tgt">>,
     logLevel |-> <<"I", "N", "F", "O">>]

-----------------------------------------------------------------------------
(* Findings and grouping *)

\* type finding (the fields the engine reads)
Finding(rule, file, start, end, match) ==
    [RuleID |-> rule, File |-> file, StartLine |-> start, EndLine |-> end,
     Match |-> match]

\* C28's mutant of GroupInto: a finding is put in front of its bucket
RECURSIVE GroupInto_Prepends(_, _, _, _)
GroupInto_Prepends(acc, findings, src, tgt) ==
    IF findings = <<>> THEN acc
    ELSE LET f == Head(findings)
             path == Replace(f.File, src, tgt)
             bucket == IF path \in DOMAIN acc THEN acc[path] ELSE <<>>
         IN  GroupInto_Prepends([p \in DOMAIN acc \cup {path} |->
                                    IF p = path THEN <<f>> \o bucket ELSE acc[p]],
                                Tail(findings), src, tgt)

\* the loop body of NewMasker: rewrite the path, append f to its bucket
RECURSIVE GroupInto(_, _, _, _)
GroupInto(acc, findings, src, tgt) ==
    IF findings = <<>> THEN acc
    ELSE LET f == Head(findings)
             path == Replace(f.File, src, tgt)
             bucket == IF path \in DOMAIN acc THEN acc[path] ELSE <<>>
         IN  GroupInto([p \in DOMAIN acc \cup {path} |->
                           IF p = path THEN Append(bucket, f) ELSE acc[p]],
                       Tail(findings), src, tgt)

\* NewMasker(sourceDir, targetDir, findings, logger).findings
NewMasker(src, tgt, findings) == GroupInto(<<>>, findings, src, tgt)

-----------------------------------------------------------------------------
(* The goroutine of one file group *)

IdleTask ==
    [pc |-> "idle", idx |-> 0, buf |-> <<>>,
     arr |-> <<>>, llen |-> 0, orig |-> <<>>, shared |-> TRUE,
     next |-> 1, got |-> {}, computed |-> {}, resultChan |-> <<>>,
     closed |-> FALSE,
     rfPath |-> <<>>, rfLines |-> <<>>, handler |-> "none",
     cancelledAtRemove |-> FALSE,
     read |-> FALSE, content |-> <<>>, absent |-> FALSE,
     calls |-> 0, fsAfter |-> <<>>, ops |-> {}, spliced |-> 0]

Running == outcome = "running"

\* the slice expression a[lo:hi] on a slice of capacity c does not panic
SliceOK(lo, hi, c) == 0 <= lo /\ lo <= hi /\ hi <= c

\* type chunk, for finding f; its content aliases lines[start-1 : end]
ChunkOf(f) ==
    [startLine |-> f.StartLine - 1, endLine |-> f.EndLine - 1, match |-> f.Match]

\* the capacity append gives a slice of capacity c grown to n elements
GrowCap(c, n) == Max(n, 2 * c)

\* a runtime panic in a goroutine without recover: its deferred function frees
\* the slot (lines 93-96), then the process dies
Panic(k) ==
    /\ task' = [task EXCEPT ![k].pc = "panicked"]
    /\ outcome' = "panic"
    /\ IF dpc = "none"
       THEN UNCHANGED <<sem, wg>>
       ELSE sem' = sem - 1 /\ wg' = wg - 1

\* HandleText, lines 223-248: split the buffer, create the chunks
HT_Chunks(k) ==
    /\ Running
    /\ task[k].pc = "handleText"
    /\ LET lines == Split(task[k].buf, <<NL>>)
           fnd == m_findings[k]
       IN  IF \A i \in 1..Len(fnd) :
                  SliceOK(fnd[i].StartLine - 1, fnd[i].EndLine, Len(lines))
           THEN /\ task' = [task EXCEPT ![k] =
                       [@ EXCEPT !.pc = "work", !.arr = lines, !.llen = Len(lines),
                                 !.orig = lines, !.shared = TRUE, !.next = 1,
                                 !.got = {}, !.computed = {},
                                 !.resultChan = <<>>, !.closed = FALSE]]
                /\ UNCHANGED <<outcome, sem, wg>>
           ELSE Panic(k)
    /\ UNCHANGED <<flags, sourceDir, targetDir, findingsIn, m_findings, fs, fsLog,
                   ctxDone, dpc, pending, cur, currentFileIdx,
                   launchedAfterCancel, mpc, doneClosed, logged>>

\* a worker takes the next chunk from workChan (line 257)
HT_WorkerRecv(k) ==
    /\ Running
    /\ task[k].pc = "work"
    /\ task[k].next <= Len(m_findings[k])
    /\ Cardinality(task[k].got) + Cardinality(task[k].computed) < NumCPU
    /\ task' = [task EXCEPT ![k] =
            [@ EXCEPT !.got = @ \cup {task[k].next}, !.next = @ + 1]]
    /\ UNCHANGED <<flags, sourceDir, targetDir, findingsIn, m_findings, fs, fsLog,
                   ctxDone, procVars, outcome>>

\* what a worker computes from the chunk content it reads (lines 266-272)
MaskChunk(content, match) ==
    CHOOSE lines \in
        {Split(targetStr, <<NL>>) :
            targetStr \in {Replace(sourceStr, match, placeholderMask) :
                              sourceStr \in {Join(content, <<NL>>)}}} : TRUE

\* a worker reads its chunk's content through the alias and masks it
HT_WorkerCompute(k, i) ==
    /\ Running
    /\ task[k].pc = "work"
    /\ i \in task[k].got
    /\ LET f == m_findings[k][i]
           content == SubSeq(task[k].orig, f.StartLine, f.EndLine)
       IN  task' = [task EXCEPT ![k] =
               [@ EXCEPT !.got = @ \ {i},
                         !.computed = @ \cup
                             {[i |-> i, content |-> MaskChunk(content, f.Match)]}]]
    /\ UNCHANGED <<flags, sourceDir, targetDir, findingsIn, m_findings, fs, fsLog,
                   ctxDone, procVars, outcome>>

\* a worker sends its result (lines 269-273); resultChan never blocks
HT_WorkerSend(k, c) ==
    /\ Running
    /\ task[k].pc = "work"
    /\ c \in task[k].computed
    /\ LET ch == ChunkOf(m_findings[k][c.i])
       IN  task' = [task EXCEPT ![k] =
               [@ EXCEPT !.computed = @ \ {c},
                         !.resultChan = Append(@,
                             [startLine |-> ch.startLine, endLine |-> ch.endLine,
                              content |-> c.content])]]
    /\ UNCHANGED <<flags, sourceDir, targetDir, findingsIn, m_findings, fs, fsLog,
                   ctxDone, procVars, outcome>>

\* C39's mutant of HT_Close: resultChan is closed as soon as workChan is empty,
\* without waiting for the workers
HT_Close_Early(k) ==
    /\ Running
    /\ task[k].pc = "work"
    /\ ~task[k].closed
    /\ task[k].next > Len(m_findings[k])
    /\ task' = [task EXCEPT ![k].closed = TRUE]
    /\ UNCHANGED <<flags, sourceDir, targetDir, findingsIn, m_findings, fs, fsLog,
                   ctxDone, procVars, outcome>>

\* all workers have returned: the closer goroutine closes resultChan (279-282)
HT_Close(k) ==
    /\ Running
    /\ task[k].pc = "work"
    /\ ~task[k].closed
    /\ task[k].next > Len(m_findings[k])
    /\ task[k].got = {}
    /\ task[k].computed = {}
    /\ task' = [task EXCEPT ![k].closed = TRUE]
    /\ UNCHANGED <<flags, sourceDir, targetDir, findingsIn, m_findings, fs, fsLog,
                   ctxDone, procVars, outcome>>

\* lines[:r.startLine] ++ r.content ++ lines[r.endLine:], as line 294 builds it
SpliceLines(arr, llen, r) ==
    SubSeq(arr, 1, r.startLine) \o r.content \o SubSeq(arr, r.endLine + 1, llen)

\* the zero values of a fresh backing array beyond its length
RECURSIVE Zeros(_)
Zeros(n) == IF n <= 0 THEN <<>> ELSE <<<<>>>> \o Zeros(n - 1)

\* the slice append leaves in lines after line 294: its backing array and length
SpliceStep(arr, llen, r) ==
    LET new == SpliceLines(arr, llen, r)
        c == Len(arr)
    IN  IF Len(new) <= c
        THEN [arr |-> new \o SubSeq(arr, Len(new) + 1, c), llen |-> Len(new),
              inPlace |-> TRUE]
        ELSE [arr |-> new \o Zeros(GrowCap(c, Len(new)) - Len(new)),
              llen |-> Len(new), inPlace |-> FALSE]

\* the slice expressions of line 294 do not panic
SpliceOK(arr, llen, r) ==
    SliceOK(0, r.startLine, Len(arr)) /\ SliceOK(r.endLine, llen, Len(arr))

\* the collector splices the next result into lines (lines 285-295)
HT_Collect(k) ==
    /\ Running
    /\ task[k].pc = "work"
    /\ task[k].resultChan # <<>>
    /\ LET t == task[k]
           r == Head(t.resultChan)
       IN  IF SpliceOK(t.arr, t.llen, r)
           THEN LET n == SpliceStep(t.arr, t.llen, r)
                IN  /\ task' = [task EXCEPT ![k] =
                            [@ EXCEPT !.resultChan = Tail(@),
                                      !.spliced = @ + 1,
                                      !.arr = n.arr, !.llen = n.llen,
                                      !.orig = IF t.shared /\ n.inPlace THEN n.arr ELSE @,
                                      !.shared = t.shared /\ n.inPlace]]
                    /\ UNCHANGED <<outcome, sem, wg>>
           ELSE Panic(k)
    /\ UNCHANGED <<flags, sourceDir, targetDir, findingsIn, m_findings, fs, fsLog,
                   ctxDone, dpc, pending, cur, currentFileIdx,
                   launchedAfterCancel, mpc, doneClosed, logged>>

\* resultChan is closed and drained: RecreateFile(findings[0].File, lines...)
HT_CollectDone(k) ==
    /\ Running
    /\ task[k].pc = "work"
    /\ task[k].resultChan = <<>>
    /\ task[k].closed
    /\ task' = [task EXCEPT ![k] =
            [@ EXCEPT !.pc = "remove", !.rfPath = m_findings[k][1].File,
                      !.rfLines = SubSeq(task[k].arr, 1, task[k].llen)]]
    /\ UNCHANGED <<flags, sourceDir, targetDir, findingsIn, m_findings, fs, fsLog,
                   ctxDone, procVars, outcome>>


-----------------------------------------------------------------------------
(* The file system *)

FileAt(p) == IF p \in DOMAIN fs THEN fs[p] ELSE NoFile

FsPut(p, content) == [q \in DOMAIN fs \cup {p} |-> IF q = p THEN content ELSE fs[q]]

\* as a string, the path tokens themselves
PathText(path) == path

\* RecreateFile, lines 186-188: os.Remove(path)
RF_Remove(k) ==
    /\ Running
    /\ task[k].pc = "remove"
    /\ LET path == task[k].rfPath
       IN  IF FileAt(path) = NoFile
           THEN /\ task' = [task EXCEPT ![k].pc = "err"]
                /\ UNCHANGED <<fs, fsLog>>
           ELSE /\ fs' = FsPut(path, NoFile)
                /\ fsLog' = fsLog \cup {<<"remove", path>>}
                /\ task' = [task EXCEPT ![k] =
                       [@ EXCEPT !.pc = "create", !.cancelledAtRemove = ctxDone,
                                 !.ops = @ \cup {<<"remove", path>>}]]
    /\ UNCHANGED <<flags, sourceDir, targetDir, findingsIn, m_findings, ctxDone,
                   procVars, outcome>>

\* C16's mutant of AfterRecreate: every caller of RecreateFile goes on to write
\* the placeholder
AfterRecreate_AlwaysBinary(k) == "placeholder"

\* where a goroutine continues when RecreateFile has returned nil
AfterRecreate(k) == IF task[k].handler = "binary" THEN "placeholder" ELSE "ok"

\* RecreateFile, lines 190-196: os.Create(path)
RF_Create(k) ==
    /\ Running
    /\ task[k].pc = "create"
    /\ fs' = FsPut(task[k].rfPath, <<>>)
    /\ fsLog' = fsLog \cup {<<"create", task[k].rfPath>>}
    /\ task' = [task EXCEPT ![k] =
            [@ EXCEPT !.pc = IF Len(task[k].rfLines) > 0 THEN "write"
                             ELSE AfterRecreate(k),
                      !.absent = (FileAt(task[k].rfPath) = NoFile),
                      !.ops = @ \cup {<<"create", task[k].rfPath>>}]]
    /\ UNCHANGED <<flags, sourceDir, targetDir, findingsIn, m_findings, ctxDone,
                   procVars, outcome>>

\* RecreateFile, lines 196-202: f.WriteString(strings.Join(lines, "\n"))
RF_Write(k) ==
    /\ Running
    /\ task[k].pc = "write"
    /\ fs' = FsPut(task[k].rfPath, Join(task[k].rfLines, <<NL>>))
    /\ fsLog' = fsLog \cup {<<"write", task[k].rfPath>>}
    /\ task' = [task EXCEPT ![k] =
            [@ EXCEPT !.pc = AfterRecreate(k),
                      !.ops = @ \cup {<<"write", task[k].rfPath>>}]]
    /\ UNCHANGED <<flags, sourceDir, targetDir, findingsIn, m_findings, ctxDone,
                   procVars, outcome>>

\* HandleBinary, line 214: the sibling placeholder path
TxtFile(path) == TrimSuffix(path, <<".p12">>) \o <<".txt">>

\* C15's mutant of HB_Placeholder: the message names the placeholder file
\* itself instead of the original path
HB_Placeholder_WrongPath(k) ==
    /\ Running
    /\ task[k].pc = "placeholder"
    /\ fs' = FsPut(TxtFile(task[k].rfPath),
                   placeholderPrefix \o TxtFile(task[k].rfPath))
    /\ fsLog' = fsLog \cup {<<"write", TxtFile(task[k].rfPath)>>}
    /\ task' = [task EXCEPT ![k] =
            [@ EXCEPT !.pc = "ok",
                      !.ops = @ \cup {<<"write", TxtFile(task[k].rfPath)>>}]]
    /\ UNCHANGED <<flags, sourceDir, targetDir, findingsIn, m_findings, ctxDone,
                   procVars, outcome>>

\* C19's mutant of HB_Placeholder: the placeholder file is opened for append
HB_Placeholder_Appends(k) ==
    /\ Running
    /\ task[k].pc = "placeholder"
    /\ LET txtFile == TxtFile(task[k].rfPath)
           old == IF FileAt(txtFile) = NoFile THEN <<>> ELSE FileAt(txtFile)
       IN  /\ fs' = FsPut(txtFile, old \o placeholderPrefix \o PathText(task[k].rfPath))
           /\ fsLog' = fsLog \cup {<<"write", txtFile>>}
    /\ task' = [task EXCEPT ![k] =
            [@ EXCEPT !.pc = "ok",
                      !.ops = @ \cup {<<"write", TxtFile(task[k].rfPath)>>}]]
    /\ UNCHANGED <<flags, sourceDir, targetDir, findingsIn, m_findings, ctxDone,
                   procVars, outcome>>

\* HandleBinary, lines 213-219: os.WriteFile(txtFile, placeholder text)
HB_Placeholder(k) ==
    /\ Running
    /\ task[k].pc = "placeholder"
    /\ fs' = FsPut(TxtFile(task[k].rfPath), placeholderPrefix \o PathText(task[k].rfPath))
    /\ fsLog' = fsLog \cup {<<"write", TxtFile(task[k].rfPath)>>}
    /\ task' = [task EXCEPT ![k] =
            [@ EXCEPT !.pc = "ok",
                      !.ops = @ \cup {<<"write", TxtFile(task[k].rfPath)>>}]]
    /\ UNCHANGED <<flags, sourceDir, targetDir, findingsIn, m_findings, ctxDone,
                   procVars, outcome>>

\* some finding of the group carries the pkcs12-file rule (lines 149-156)
AnyPkcs12(fnd) == \E i \in 1..Len(fnd) : fnd[i].RuleID = PKCS12

\* C14's mutant of Classify: the content is inspected before the rule
Classify_ContentFirst(fnd, buf) ==
    IF buf = NoFile THEN "error"
    ELSE IF Len(buf) = 0 THEN "empty"
    ELSE IF AnyPkcs12(fnd) THEN "rule"
    ELSE IF ~Utf8Valid(buf) THEN "binary"
    ELSE "text"

\* C17's mutant of Classify: an empty file goes to the binary handler
Classify_EmptyIsBinary(fnd, buf) ==
    IF AnyPkcs12(fnd) THEN "rule"
    ELSE IF buf = NoFile THEN "error"
    ELSE IF ~Utf8Valid(buf) \/ Len(buf) = 0 THEN "binary"
    ELSE "text"

\* C18's mutant of Classify: a failed read is taken for an empty file
Classify_ErrorIsEmpty(fnd, buf) ==
    IF AnyPkcs12(fnd) THEN "rule"
    ELSE IF buf = NoFile THEN "empty"
    ELSE IF Len(buf) = 0 THEN "empty"
    ELSE IF ~Utf8Valid(buf) THEN "binary"
    ELSE "text"

\* the decisions of ParseFileType in the order the code takes them; buf is what
\* os.ReadFile gives (NoFile when it fails) and is looked at only past the rule
Classify(fnd, buf) ==
    IF AnyPkcs12(fnd) THEN "rule"
    ELSE IF buf = NoFile THEN "error"
    ELSE IF Len(buf) = 0 THEN "empty"
    ELSE IF ~Utf8Valid(buf) THEN "binary"
    ELSE "text"

\* ParseFileType: which handler the goroutine of group k gets
ParseFileType(k) ==
    /\ Running
    /\ task[k].pc = "classify"
    /\ LET buf == FileAt(k)
           kind == Classify(m_findings[k], buf)
           seen == [task[k] EXCEPT !.read = TRUE, !.content = buf]
       IN  task' = [task EXCEPT ![k] =
              CASE kind = "rule" ->
                     [@ EXCEPT !.pc = "remove", !.handler = "binary", !.rfPath = k,
                               !.rfLines = <<>>]
                [] kind = "error" -> [seen EXCEPT !.pc = "err"]
                [] kind = "empty" -> [seen EXCEPT !.pc = "ok", !.handler = "nil"]
                [] kind = "binary" ->
                     [seen EXCEPT !.pc = "remove", !.handler = "binary",
                                  !.rfPath = k, !.rfLines = <<>>]
                [] kind = "text" ->
                     [seen EXCEPT !.pc = "handleText", !.handler = "text",
                                  !.buf = buf]]
    /\ UNCHANGED <<flags, sourceDir, targetDir, findingsIn, m_findings, fs, fsLog,
                   ctxDone, procVars, outcome>>

\* C12's mutant of TaskReturn: an early return that skips the release of the slot
TaskReturn_KeepsSlot(k) ==
    /\ Running
    /\ task[k].pc \in {"ok", "err"}
    /\ task' = [task EXCEPT ![k].pc = IF task[k].pc = "ok" THEN "done" ELSE "failed"]
    /\ IF dpc = "none"
       THEN UNCHANGED <<sem, wg>>
       ELSE /\ sem' = IF task[k].pc = "err" THEN sem ELSE sem - 1
            /\ wg' = wg - 1
    /\ UNCHANGED <<flags, sourceDir, targetDir, findingsIn, m_findings, fs, fsLog,
                   ctxDone, dpc, pending, cur, currentFileIdx,
                   launchedAfterCancel, mpc, doneClosed, logged, outcome>>

\* C38's mutant of TaskReturn: the goroutine returns without taking its token
\* back out of the semaphore channel
TaskReturn_NoRelease(k) ==
    /\ Running
    /\ task[k].pc \in {"ok", "err"}
    /\ task' = [task EXCEPT ![k].pc = IF task[k].pc = "ok" THEN "done" ELSE "failed"]
    /\ IF dpc = "none"
       THEN UNCHANGED <<sem, wg>>
       ELSE sem' = sem /\ wg' = wg - 1
    /\ UNCHANGED <<flags, sourceDir, targetDir, findingsIn, m_findings, fs, fsLog,
                   ctxDone, dpc, pending, cur, currentFileIdx,
                   launchedAfterCancel, mpc, doneClosed, logged, outcome>>

\* the goroutine returns: its deferred function frees the slot (lines 93-96)
TaskReturn(k) ==
    /\ Running
    /\ task[k].pc \in {"ok", "err"}
    /\ task' = [task EXCEPT ![k].pc = IF task[k].pc = "ok" THEN "done" ELSE "failed"]
    /\ IF dpc = "none"
       THEN UNCHANGED <<sem, wg>>
       ELSE sem' = sem - 1 /\ wg' = wg - 1
    /\ UNCHANGED <<flags, sourceDir, targetDir, findingsIn, m_findings, fs, fsLog,
                   ctxDone, dpc, pending, cur, currentFileIdx,
                   launchedAfterCancel, mpc, doneClosed, logged, outcome>>

-----------------------------------------------------------------------------
(* HandleText called on its own, as the tests call it *)

TestFile == <<"tmp", "/", "t", ".txt">>

\* the lines a test buffer is made of
TestLines == {<<"s">>, <<"a", "s">>}

\* the match strings of the test findings
TestMatches == {<<"s">>, <<"s", NL, "s">>}

TestBufs == {Join(ls, <<NL>>) : ls \in SeqUpTo(TestLines, MaxLines)}

TestFindings ==
    {Finding("generic", TestFile, st, en, mt) :
        st \in 0..(MaxLines + 1), en \in 0..(MaxLines + 1), mt \in TestMatches}

InitText ==
    /\ flags = DefaultFlags
    /\ sourceDir = <<>>
    /\ targetDir = <<>>
    /\ findingsIn \in SeqUpTo(TestFindings, MaxFindings) \ {<<>>}
    /\ m_findings = NewMasker(sourceDir, targetDir, findingsIn)
    /\ \E buf \in TestBufs :
          /\ fs = [p \in {TestFile} |-> buf]
          /\ task = [k \in DOMAIN m_findings |->
                        [IdleTask EXCEPT !.pc = "handleText", !.handler = "text",
                                         !.buf = buf]]
    /\ fsLog = {}
    /\ ctxDone = FALSE
    /\ dpc = "none"
    /\ pending = {}
    /\ cur = <<>>
    /\ sem = 0
    /\ wg = 0
    /\ currentFileIdx = 0
    /\ launchedAfterCancel = {}
    /\ mpc = "none"
    /\ doneClosed = FALSE
    /\ logged = {}
    /\ outcome = "running"

NextText ==
    \/ HT_Chunks(TestFile)
    \/ HT_WorkerRecv(TestFile)
    \/ \E i \in task[TestFile].got : HT_WorkerCompute(TestFile, i)
    \/ \E c \in task[TestFile].computed : HT_WorkerSend(TestFile, c)
    \/ HT_Close(TestFile)
    \/ HT_Collect(TestFile)
    \/ HT_CollectDone(TestFile)
    \/ RF_Remove(TestFile)
    \/ RF_Create(TestFile)
    \/ RF_Write(TestFile)
    \/ TaskReturn(TestFile)

SpecText == InitText /\ [][NextText]_vars

\* the mask and the newline the test "Custom mask and newline" configures
TestMask == <<"[", "M", "]">>

TestNewline == <<NL>>

-----------------------------------------------------------------------------
(* HandleText: what the written file should be *)

\* the lines of the buffer HandleText was given
InputLines == Split(task[TestFile].buf, <<NL>>)

\* the lines of the file as HandleText left it
WrittenLines == Split(FileAt(TestFile), <<NL>>)

TextReturnedNil == task[TestFile].pc = "done"

InBounds(f, n) == 1 <= f.StartLine /\ f.StartLine <= f.EndLine /\ f.EndLine <= n

NonOverlapping(fnd) ==
    \A i, j \in 1..Len(fnd) :
        i < j => \/ fnd[i].EndLine < fnd[j].StartLine
                 \/ fnd[j].EndLine < fnd[i].StartLine

\* a finding on one line of the buffer, whose match occurs on that line
OnOneLine(f, lines) ==
    /\ InBounds(f, Len(lines))
    /\ f.StartLine = f.EndLine
    /\ Contains(lines[f.StartLine], f.Match)

\* lines with every single-line finding's match replaced on its own line
MaskedInPlace(lines, fnd) ==
    [n \in 1..Len(lines) |->
        IF \E i \in 1..Len(fnd) : fnd[i].StartLine = n
        THEN LET i == CHOOSE i \in 1..Len(fnd) : fnd[i].StartLine = n
             IN  Replace(lines[n], fnd[i].Match, placeholderMask)
        ELSE lines[n]]

\* C1: with a single finding whose match lies on one line, the written file is
\* the input with that match replaced by the placeholder and every other byte
\* unchanged.
C1_SingleLineMask ==
    (/\ TextReturnedNil
     /\ Len(findingsIn) = 1
     /\ OnOneLine(findingsIn[1], InputLines))
    => FileAt(TestFile) = Join(MaskedInPlace(InputLines, findingsIn), <<NL>>)

\* C2: with a single finding that spans several lines and whose match is the
\* joined text of those lines, the written file has that line range collapsed
\* into one placeholder line, and the lines before and after it unchanged.
C2_MultiLineCollapse ==
    (/\ TextReturnedNil
     /\ Len(findingsIn) = 1
     /\ InBounds(findingsIn[1], Len(InputLines))
     /\ findingsIn[1].StartLine < findingsIn[1].EndLine
     /\ findingsIn[1].Match =
            Join(SubSeq(InputLines, findingsIn[1].StartLine, findingsIn[1].EndLine),
                 <<NL>>))
    => WrittenLines =
           SubSeq(InputLines, 1, findingsIn[1].StartLine - 1)
           \o <<placeholderMask>>
           \o SubSeq(InputLines, findingsIn[1].EndLine + 1, Len(InputLines))

\* the text of lines st..en of the written file (as far as they exist)
WrittenSpan(st, en) ==
    Join(SubSeq(WrittenLines, st, IF en <= Len(WrittenLines) THEN en
                                   ELSE Len(WrittenLines)), <<NL>>)

\* C3: after HandleText returns nil for in-bounds, non-overlapping findings, no
\* finding's match text occurs in the written file at the lines of its span.
C3_SecretGoneFromSpan ==
    (/\ TextReturnedNil
     /\ \A i \in 1..Len(findingsIn) : InBounds(findingsIn[i], Len(InputLines))
     /\ NonOverlapping(findingsIn))
    => \A i \in 1..Len(findingsIn) :
           ~Contains(WrittenSpan(findingsIn[i].StartLine, findingsIn[i].EndLine),
                     findingsIn[i].Match)

\* the result a worker sends for finding f, computed from the buffer's lines
ResultOf(f, lines) ==
    [startLine |-> f.StartLine - 1, endLine |-> f.EndLine - 1,
     content |-> MaskChunk(SubSeq(lines, f.StartLine, f.EndLine), f.Match)]

\* the lines the collector holds after splicing the results of fnd in order
RECURSIVE SpliceInOrder(_, _, _, _)
SpliceInOrder(arr, llen, fnd, lines) ==
    IF fnd = <<>> THEN SubSeq(arr, 1, llen)
    ELSE LET r == ResultOf(Head(fnd), lines)
         IN  IF ~SpliceOK(arr, llen, r) THEN << <<"panic">> >>
             ELSE LET n == SpliceStep(arr, llen, r)
                  IN  SpliceInOrder(n.arr, n.llen, Tail(fnd), lines)

\* C6: with two or more non-overlapping findings the written content does not
\* depend on the order in which the workers' results are spliced: it is the
\* content obtained when the results arrive in the findings' own order.
C6_OrderIndependent ==
    (/\ TextReturnedNil
     /\ Len(findingsIn) >= 2
     /\ \A i \in 1..Len(findingsIn) : InBounds(findingsIn[i], Len(InputLines))
     /\ NonOverlapping(findingsIn))
    => WrittenLines =
           SpliceInOrder(InputLines, Len(InputLines), findingsIn, InputLines)

\* C7: with several findings on distinct lines the written file has each match
\* replaced on its own line, as many lines as the input, and every other line
\* unchanged.
C7_MultipleFindings ==
    (/\ TextReturnedNil
     /\ Len(findingsIn) >= 2
     /\ \A i \in 1..Len(findingsIn) : OnOneLine(findingsIn[i], InputLines)
     /\ NonOverlapping(findingsIn))
    => /\ Len(WrittenLines) = Len(InputLines)
       /\ WrittenLines = MaskedInPlace(InputLines, findingsIn)

-----------------------------------------------------------------------------
(* ProcessWithContext and main *)

engineVars == <<flags, sourceDir, targetDir, findingsIn, m_findings, fs, fsLog>>

\* C21's mutant of D_Check: the loop does not move past the group it visits
D_Check_Revisits ==
    /\ Running
    /\ dpc = "check"
    /\ IF ctxDone
       THEN /\ dpc' = "returned"
            /\ UNCHANGED <<cur, currentFileIdx>>
       ELSE \E path \in pending :
               /\ cur' = path
               /\ currentFileIdx' = currentFileIdx + 1
               /\ dpc' = "acquire"
    /\ UNCHANGED <<engineVars, ctxDone, pending, sem, wg, task,
                   launchedAfterCancel, mpc, doneClosed, logged, outcome>>

\* the range loop of ProcessWithContext up to the semaphore (lines 74-85)
D_Check ==
    /\ Running
    /\ dpc = "check"
    /\ IF pending = {}
       THEN /\ dpc' = "wait"
            /\ UNCHANGED <<cur, pending, currentFileIdx>>
       ELSE IF ctxDone
       THEN /\ dpc' = "returned"
            /\ UNCHANGED <<cur, pending, currentFileIdx>>
       ELSE \E path \in pending :
               /\ cur' = path
               /\ pending' = pending \ {path}
               /\ currentFileIdx' = currentFileIdx + 1
               /\ dpc' = "acquire"
    /\ UNCHANGED <<engineVars, ctxDone, sem, wg, task, launchedAfterCancel, mpc,
                   doneClosed, logged, outcome>>

\* C31's mutant of D_Launch: the goroutine is given the number of the slot it
\* took instead of the captured counter
D_Launch_SlotIdx ==
    /\ Running
    /\ dpc = "acquire"
    /\ sem < NumCPU
    /\ sem' = sem + 1
    /\ wg' = wg + 1
    /\ task' = [task EXCEPT ![cur] = [@ EXCEPT !.pc = "classify",
                                                !.idx = sem + 1]]
    /\ launchedAfterCancel' =
           IF ctxDone THEN launchedAfterCancel \cup {cur} ELSE launchedAfterCancel
    /\ dpc' = "check"
    /\ UNCHANGED <<engineVars, ctxDone, pending, cur, currentFileIdx, mpc,
                   doneClosed, logged, outcome>>

\* a slot is free: sem <- struct{}{}, wg.Add(1), go func (lines 88-91)
D_Launch ==
    /\ Running
    /\ dpc = "acquire"
    /\ sem < NumCPU
    /\ sem' = sem + 1
    /\ wg' = wg + 1
    /\ task' = [task EXCEPT ![cur] = [@ EXCEPT !.pc = "classify",
                                                !.idx = currentFileIdx]]
    /\ launchedAfterCancel' =
           IF ctxDone THEN launchedAfterCancel \cup {cur} ELSE launchedAfterCancel
    /\ dpc' = "check"
    /\ UNCHANGED <<engineVars, ctxDone, pending, cur, currentFileIdx, mpc,
                   doneClosed, logged, outcome>>

\* C11's mutant of D_Wait: the function returns without waiting for the group
D_Wait_NoWait ==
    /\ Running
    /\ dpc = "wait"
    /\ dpc' = "returned"
    /\ UNCHANGED <<engineVars, ctxDone, pending, cur, sem, wg, currentFileIdx,
                   task, launchedAfterCancel, mpc, doneClosed, logged, outcome>>

\* the final select of ProcessWithContext (lines 128-143)
D_Wait ==
    /\ Running
    /\ dpc = "wait"
    /\ \/ /\ wg = 0
          /\ UNCHANGED logged
       \/ /\ ctxDone
          /\ logged' = logged \cup {"interrupted"}
    /\ dpc' = "returned"
    /\ UNCHANGED <<engineVars, ctxDone, pending, cur, sem, wg, currentFileIdx,
                   task, launchedAfterCancel, mpc, doneClosed, outcome>>

\* what ProcessWithContext returns (lines 78 and 143)
ReturnValue == m_findings

\* where main's report goes (main.go, line 152)
ReportPath == <<"report">>

\* main's processing goroutine after ProcessWithContext (main.go, 138-158)
P_AfterProcess ==
    /\ Running
    /\ dpc = "returned"
    /\ IF ctxDone
       THEN /\ logged' = logged \cup {"was interrupted"}
            /\ dpc' = "closed"
            /\ doneClosed' = TRUE
       ELSE /\ logged' = logged \cup {"processed"}
            /\ dpc' = "report"
            /\ UNCHANGED doneClosed
    /\ UNCHANGED <<engineVars, ctxDone, pending, cur, sem, wg, currentFileIdx,
                   task, launchedAfterCancel, mpc, outcome>>

\* main's processing goroutine writes the grouped report (main.go, 146-158)
P_WriteReport ==
    /\ Running
    /\ dpc = "report"
    /\ logged' = logged \cup {"saved"}
    /\ dpc' = "closed"
    /\ doneClosed' = TRUE
    /\ UNCHANGED <<engineVars, ctxDone, pending, cur, sem, wg, currentFileIdx,
                   task, launchedAfterCancel, mpc, outcome>>

\* watcher: a termination signal cancels the context (main.go, 60-70)
Cancel ==
    /\ Running
    /\ mpc \notin {"none", "flags"}
    /\ ~ctxDone
    /\ ctxDone' = TRUE
    /\ UNCHANGED <<engineVars, dpc, pending, cur, sem, wg, currentFileIdx, task,
                   launchedAfterCancel, mpc, doneClosed, logged, outcome>>

\* main's select (main.go, 161-165)
M_Select ==
    /\ Running
    /\ mpc = "select"
    /\ \/ /\ doneClosed
          /\ mpc' = "returned"
          /\ outcome' = "exit0"
       \/ /\ ctxDone
          /\ mpc' = "grace"
          /\ UNCHANGED outcome
    /\ UNCHANGED <<engineVars, ctxDone, dpc, pending, cur, sem, wg,
                   currentFileIdx, task, launchedAfterCancel, doneClosed, logged>>

\* main's wait for a graceful shutdown, then os.Exit(1) (main.go, 166-172)
M_Grace ==
    /\ Running
    /\ mpc = "grace"
    /\ \/ /\ doneClosed
          /\ UNCHANGED logged
       \/ logged' = logged \cup {"timed out"}
    /\ mpc' = "exited"
    /\ outcome' = "exit1"
    /\ UNCHANGED <<engineVars, ctxDone, dpc, pending, cur, sem, wg,
                   currentFileIdx, task, launchedAfterCancel, doneClosed>>

-----------------------------------------------------------------------------
(* The runs of the whole program *)

SrcRoot == <<"src">>

TgtRoot == <<"tgt">>

\* the files of the source tree (and of its copy), by relative path
TreeFiles ==
    ( <<"/", "a">>           :> <<"a", "s">> ) @@
    ( <<"/", "b">>           :> <<"s">> ) @@
    ( <<"/", "c">>           :> <<"s">> ) @@
    ( <<"/", "k", ".p12">>   :> <<"s">> ) @@
    ( <<"/", "e">>           :> <<>> ) @@
    ( <<"/", "k">>           :> <<BadByte>> )

\* the findings a report may hold
FindingUniverse ==
    << Finding("generic", SrcRoot \o <<"/", "a">>, 1, 1, <<"s">>),
       Finding("generic", SrcRoot \o <<"/", "c">>, 2, 2, <<"s">>),
       Finding(PKCS12,    SrcRoot \o <<"/", "k", ".p12">>, 0, 0, <<>>),
       Finding("generic", SrcRoot \o <<"/", "e">>, 1, 1, <<"s">>),
       Finding("generic", SrcRoot \o <<"/", "m">>, 1, 1, <<"s">>),
       Finding("generic", SrcRoot \o <<"/", "k">>, 1, 1, <<"s">>),
       Finding(PKCS12,    SrcRoot \o <<"/", "e">>, 0, 0, <<>>) >>

\* largest number of findings of a report
MaxReport == 3

\* the subsequence of s at the positions in I
RECURSIVE Pick(_, _, _)
Pick(s, I, i) ==
    IF i > Len(s) THEN <<>>
    ELSE (IF i \in I THEN <<s[i]>> ELSE <<>>) \o Pick(s, I, i + 1)

Reports ==
    {Pick(FindingUniverse, I, 1) :
        I \in {J \in SUBSET (1..Len(FindingUniverse)) :
                  Cardinality(J) >= 1 /\ Cardinality(J) <= MaxReport}}

\* the tree under src, and the copy main makes of it under tgt
InitialFs ==
    [p \in {root \o n : root \in {SrcRoot, TgtRoot}, n \in DOMAIN TreeFiles} |->
        TreeFiles[SubSeq(p, 2, Len(p))]]

Init ==
    /\ flags = DefaultFlags
    /\ sourceDir = SrcRoot
    /\ targetDir = TgtRoot
    /\ findingsIn \in Reports
    /\ m_findings = NewMasker(sourceDir, targetDir, findingsIn)
    /\ fs = InitialFs
    /\ fsLog = {}
    /\ ctxDone = FALSE
    /\ dpc = "check"
    /\ pending = DOMAIN m_findings
    /\ cur = <<>>
    /\ sem = 0
    /\ wg = 0
    /\ currentFileIdx = 0
    /\ task = [k \in DOMAIN m_findings |-> IdleTask]
    /\ launchedAfterCancel = {}
    /\ mpc = "select"
    /\ doneClosed = FALSE
    /\ logged = {}
    /\ outcome = "running"

Next ==
    \/ D_Check
    \/ D_Launch
    \/ D_Wait
    \/ P_AfterProcess
    \/ P_WriteReport
    \/ Cancel
    \/ M_Select
    \/ M_Grace
    \/ \E k \in DOMAIN m_findings : ParseFileType(k)
    \/ \E k \in DOMAIN m_findings : HT_Chunks(k)
    \/ \E k \in DOMAIN m_findings : HT_WorkerRecv(k)
    \/ \E k \in DOMAIN m_findings : \E i \in task[k].got : HT_WorkerCompute(k, i)
    \/ \E k \in DOMAIN m_findings : \E c \in task[k].computed : HT_WorkerSend(k, c)
    \/ \E k \in DOMAIN m_findings : HT_Close(k)
    \/ \E k \in DOMAIN m_findings : HT_Collect(k)
    \/ \E k \in DOMAIN m_findings : HT_CollectDone(k)
    \/ \E k \in DOMAIN m_findings : RF_Remove(k)
    \/ \E k \in DOMAIN m_findings : RF_Create(k)
    \/ \E k \in DOMAIN m_findings : RF_Write(k)
    \/ \E k \in DOMAIN m_findings : HB_Placeholder(k)
    \/ \E k \in DOMAIN m_findings : TaskReturn(k)

Spec == Init /\ [][Next]_vars

-----------------------------------------------------------------------------
(* The whole program: what a run may do *)

Groups == DOMAIN m_findings

\* C4: with a source root different from the target root, every file that is
\* deleted, created or written lies under the target root, so that no file
\* under the source root is modified.
C4_WritesStayUnderTarget ==
    sourceDir # targetDir =>
        /\ \A e \in fsLog : HasPrefix(e[2], targetDir)
        /\ \A p \in DOMAIN InitialFs :
               HasPrefix(p, sourceDir) => FileAt(p) = InitialFs[p]

\* startLine or endLine of f is no line of a file of n lines
OutOfRange(f, n) ==
    \/ f.StartLine < 1 \/ f.StartLine > n
    \/ f.EndLine < 1 \/ f.EndLine > n

\* group k is handled as text and has a finding whose lines are not lines of
\* the file
OutOfBounds(k) ==
    /\ task[k].handler = "text"
    /\ \E i \in 1..Len(m_findings[k]) :
           OutOfRange(m_findings[k][i], Len(Split(task[k].buf, <<NL>>)))

\* C5: a finding whose lines lie outside the file makes that file's task end
\* failed, with an error; the run does not crash.
C5_OutOfBoundsFails ==
    \A k \in Groups :
        (OutOfBounds(k) /\ task[k].pc # "handleText")
        => /\ task[k].pc \in {"err", "failed"}
           /\ outcome # "panic"

Terminal(k) == task[k].pc \in {"done", "failed"}

\* C8: a file group's failure never terminates the process or the dispatcher:
\* while some group has failed the process has not crashed, and a run that
\* ends without cancellation has brought every group to done or failed.
C8_FailureIsolation ==
    /\ (\E k \in Groups : task[k].pc \in {"err", "failed", "panicked"})
           => outcome # "panic"
    /\ (outcome # "running" /\ ~ctxDone) => \A k \in Groups : Terminal(k)

\* C9: no file goroutine is launched once the context is cancelled.
C9_NoLaunchAfterCancel == launchedAfterCancel = {}

\* the goroutine of k is between the os.Remove and the end of the write of
\* RecreateFile
MidRewrite(k) == task[k].pc \in {"create", "write"}

\* C10: a rewrite that began before the cancellation is let finish: short of
\* the grace period running out, the process does not exit while such a task
\* is still inside its delete-then-create rewrite.
C10_NoExitMidRewrite ==
    (outcome \in {"exit0", "exit1"} /\ "timed out" \notin logged)
        => \A k \in Groups : ~(MidRewrite(k) /\ ~task[k].cancelledAtRemove)

-----------------------------------------------------------------------------
(* ProcessWithContext: return, semaphore, paths *)

\* ProcessWithContext has returned
Returned == dpc \in {"returned", "report", "closed"}

\* C11: when ProcessWithContext has returned and the context is not
\* cancelled, every file group is done or failed, none is inside a rewrite,
\* and the mapping it returns is the mapping NewMasker built.
C11_ReturnsWhenAllTerminal ==
    (Returned /\ ~ctxDone)
    => /\ \A k \in Groups : Terminal(k) /\ ~MidRewrite(k)
       /\ m_findings = NewMasker(sourceDir, targetDir, findingsIn)

\* C11's case: an uncancelled run of three groups has returned, one group
\* rewritten and one failed
C11_Witness ==
    /\ Returned /\ ~ctxDone
    /\ Cardinality(Groups) = 3
    /\ \E k \in Groups : task[k].pc = "done" /\ task[k].rfPath # <<>>
    /\ \E k \in Groups : task[k].pc = "failed"

\* the goroutine of k was launched and has not returned
InFlight(k) == task[k].pc \notin {"idle", "done", "failed", "panicked"}

\* C12: the tasks in flight are at most NumCPU, and the slots held in the
\* semaphore are as many as the tasks in flight: every task that ended gave
\* its slot back, once.
C12_SemaphoreBound ==
    /\ sem <= NumCPU
    /\ sem = Cardinality({k \in Groups : InFlight(k)})
    /\ wg = sem

\* C12's case: every slot is taken, a third group waits for one, and a task
\* has reached its return on the error path
C12_Witness ==
    /\ sem = NumCPU
    /\ dpc = "acquire"
    /\ task[cur].pc = "idle"
    /\ \E k \in Groups : task[k].pc = "err"

\* the goroutine of k is about to delete, create or write a file
AtFileOp(k) == task[k].pc \in {"remove", "create", "write", "placeholder"}

\* the path that operation is on
NextPath(k) ==
    IF task[k].pc = "placeholder" THEN TxtFile(task[k].rfPath) ELSE task[k].rfPath

\* C13: no two running file tasks are about to delete, create or write the
\* same path, the placeholder path of HandleBinary included.
C13_NoSharedPath ==
    \A k1, k2 \in Groups :
        (k1 # k2 /\ AtFileOp(k1) /\ AtFileOp(k2)) => NextPath(k1) # NextPath(k2)

-----------------------------------------------------------------------------
(* ParseFileType and the handlers *)

\* ParseFileType has returned for group k
Classified(k) == task[k].pc \notin {"idle", "classify"}

\* C14: a group with a pkcs12-file finding is handled as binary and its file
\* is not read; any other group's file is read, and it gets no handler when
\* the content is empty, else the binary handler when the content is not valid
\* UTF-8, else the text handler.
C14_ClassificationOrder ==
    \A k \in Groups : Classified(k) =>
        IF \E i \in 1..Len(m_findings[k]) : m_findings[k][i].RuleID = PKCS12
        THEN task[k].handler = "binary" /\ ~task[k].read
        ELSE /\ task[k].read
             /\ task[k].content # NoFile =>
                    task[k].handler =
                        IF Len(task[k].content) = 0 THEN "nil"
                        ELSE IF \E i \in 1..Len(task[k].content) :
                                    task[k].content[i] = BadByte
                        THEN "binary"
                        ELSE "text"

\* C14's case: an empty file whose second finding carries the rule is handled
\* as binary, unread, while a file that is not valid UTF-8 is read and handled
\* as binary
C14_Witness ==
    /\ \E k \in Groups :
          /\ Len(m_findings[k]) = 2
          /\ m_findings[k][2].RuleID = PKCS12
          /\ InitialFs[k] = <<>>
          /\ task[k].handler = "binary" /\ ~task[k].read
    /\ \E k \in Groups :
          /\ task[k].read
          /\ task[k].content = <<BadByte>>
          /\ task[k].handler = "binary"

InText(k) == task[k].pc \in {"handleText", "work"} \/ task[k].orig # <<>>

\* the goroutine of k is at, or past, the placeholder write of HandleBinary
InBinary(k) ==
    \/ task[k].pc = "placeholder"
    \/ <<"write", TxtFile(task[k].rfPath)>> \in task[k].ops

\* C16: a goroutine is or has been inside HandleText only for a group
\* classified as text, and at HandleBinary's placeholder write only for a
\* group classified as binary; never both, and with no handler neither and
\* no file operation at all.
C16_OneHandler ==
    \A k \in Groups :
        /\ InText(k) => task[k].handler = "text"
        /\ InBinary(k) => task[k].handler = "binary"
        /\ ~(InText(k) /\ InBinary(k))
        /\ task[k].handler \in {"none", "nil"} => task[k].ops = {}
        /\ task[k].handler = "text" =>
               \A o \in task[k].ops : o[2] = m_findings[k][1].File

\* C16's case: a text group and a binary group have both been handled
C16_Witness ==
    /\ \E k \in Groups : task[k].handler = "text" /\ task[k].pc = "done"
    /\ \E k \in Groups : task[k].handler = "binary" /\ task[k].pc = "done"

\* group k has no pkcs12-file finding and its file is there and empty
EmptyCase(k) ==
    /\ \A i \in 1..Len(m_findings[k]) : m_findings[k][i].RuleID # PKCS12
    /\ k \in DOMAIN InitialFs
    /\ InitialFs[k] = <<>>

\* C17: the goroutine of a group whose file is empty reads the file, deletes,
\* creates and writes nothing, and returns with success; the file stays empty
\* and in place.
C17_EmptyFileUntouched ==
    \A k \in Groups :
        (EmptyCase(k) /\ Classified(k))
        => /\ task[k].read
           /\ task[k].ops = {}
           /\ task[k].pc \in {"ok", "done"}
           /\ FileAt(k) = <<>>
           /\ \A e \in fsLog : e[2] # k

\* C17's case: the group of the empty file has returned with success
C17_Witness ==
    \E k \in Groups :
        /\ EmptyCase(k)
        /\ task[k].pc = "done"
        /\ task[k].read
        /\ FileAt(k) = <<>>

\* group k has no pkcs12-file finding and there is no file at its path
MissingCase(k) ==
    /\ \A i \in 1..Len(m_findings[k]) : m_findings[k][i].RuleID # PKCS12
    /\ k \notin DOMAIN InitialFs

\* C18: the goroutine of a group whose file cannot be read deletes, creates
\* and writes nothing, gets no handler, and ends failed.
C18_ReadErrorNoEffect ==
    \A k \in Groups :
        (MissingCase(k) /\ Classified(k))
        => /\ task[k].content = NoFile
           /\ task[k].ops = {}
           /\ task[k].handler = "none"
           /\ task[k].pc \in {"err", "failed"}
           /\ FileAt(k) = NoFile

\* C18's case: the group of the missing file has failed on its read while
\* another group has been rewritten
C18_Witness ==
    /\ \E k \in Groups :
          MissingCase(k) /\ task[k].pc = "failed" /\ task[k].content = NoFile
    /\ \E k \in Groups : task[k].pc = "done" /\ task[k].rfPath # <<>>

\* C20: a RecreateFile call that has returned nil never had the path absent
\* between its removal and its creation.
C20_PathNeverAbsent ==
    \A k \in Groups :
        (task[k].pc \in {"placeholder", "ok", "done"} /\ task[k].rfPath # <<>>)
        => ~task[k].absent

-----------------------------------------------------------------------------
(* HandleBinary called on its own, and called again on what it left *)

\* largest number of repeated calls of HandleBinary on one path
MaxCalls == 2

BinFiles == {<<"tmp", "/", "k", ".p12">>, <<"tmp", "/", "k">>}

\* what the file may hold before the first call
BinContents == SeqUpTo({"s", NL, BadByte}, 2)

\* what may be at the placeholder path before the first call
TxtContents(path) == {NoFile, <<"o">>, placeholderPrefix \o PathText(path)}

\* HandleBinary has returned nil and is called on the same path once more
HB_Again(k) ==
    /\ Running
    /\ task[k].pc = "ok"
    /\ task[k].handler = "binary"
    /\ task[k].calls < MaxCalls
    /\ task' = [task EXCEPT ![k] =
            [@ EXCEPT !.pc = "remove", !.calls = @ + 1, !.fsAfter = fs,
                      !.absent = FALSE]]
    /\ UNCHANGED <<flags, sourceDir, targetDir, findingsIn, m_findings, fs, fsLog,
                   ctxDone, procVars, outcome>>

InitBinary ==
    /\ flags = DefaultFlags
    /\ sourceDir = <<>>
    /\ targetDir = <<>>
    /\ \E path \in BinFiles :
          /\ findingsIn = <<Finding(PKCS12, path, 0, 0, <<>>)>>
          /\ \E c \in BinContents, t \in TxtContents(path) :
                fs = [p \in {path, TxtFile(path)} |-> IF p = path THEN c ELSE t]
    /\ m_findings = NewMasker(sourceDir, targetDir, findingsIn)
    /\ task = [k \in DOMAIN m_findings |-> [IdleTask EXCEPT !.pc = "classify"]]
    /\ fsLog = {}
    /\ ctxDone = FALSE
    /\ dpc = "none"
    /\ pending = {}
    /\ cur = <<>>
    /\ sem = 0
    /\ wg = 0
    /\ currentFileIdx = 0
    /\ launchedAfterCancel = {}
    /\ mpc = "none"
    /\ doneClosed = FALSE
    /\ logged = {}
    /\ outcome = "running"

NextBinary ==
    \/ \E k \in DOMAIN m_findings : ParseFileType(k)
    \/ \E k \in DOMAIN m_findings : RF_Remove(k)
    \/ \E k \in DOMAIN m_findings : RF_Create(k)
    \/ \E k \in DOMAIN m_findings : HB_Placeholder(k)
    \/ \E k \in DOMAIN m_findings : HB_Again(k)
    \/ \E k \in DOMAIN m_findings : TaskReturn(k)

SpecBinary == InitBinary /\ [][NextBinary]_vars

\* C19: HandleBinary called on a path it has already emptied, with the
\* placeholder file it has already written, returns no error and leaves the
\* original file and the placeholder file with the content they had.
C19_BinaryIdempotent ==
    \A k \in Groups :
        task[k].calls >= 1
        => /\ task[k].pc \notin {"err", "failed"}
           /\ task[k].pc \in {"ok", "done"} => fs = task[k].fsAfter

\* C19's case: the second call has returned, on a file that had content and
\* with something else at the placeholder path before the first call
C19_Witness ==
    \E k \in Groups :
        /\ task[k].calls >= 1
        /\ task[k].pc = "ok"
        /\ FileAt(k) = <<>>
        /\ FileAt(TxtFile(k)) = placeholderPrefix \o PathText(k)
        /\ <<"remove", k>> \in fsLog

-----------------------------------------------------------------------------
(* NewMasker called on a list of findings *)

\* largest number of findings handed to NewMasker
MaxInput == 3

\* findings whose paths hold the source root in front, twice, in the middle,
\* or not at all
GroupFindings ==
    { Finding("generic", SrcRoot \o <<"/", "a">>, 1, 1, <<"s">>),
      Finding(PKCS12,    SrcRoot \o <<"/", "a">>, 0, 0, <<>>),
      Finding("generic", TgtRoot \o <<"/", "a">>, 1, 1, <<"s">>),
      Finding("generic", SrcRoot \o <<"/">> \o SrcRoot \o <<"/", "a">>, 1, 1, <<"s">>),
      Finding("generic", <<"x", "/">> \o SrcRoot \o <<"/", "a">>, 1, 1, <<"s">>) }

\* main's processing goroutine builds the Masker (main.go, line 133)
M_NewMasker ==
    /\ Running
    /\ dpc = "new"
    /\ m_findings' = NewMasker(sourceDir, targetDir, findingsIn)
    /\ task' = [k \in DOMAIN m_findings' |-> IdleTask]
    /\ pending' = DOMAIN m_findings'
    /\ dpc' = "check"
    /\ UNCHANGED <<flags, sourceDir, targetDir, findingsIn, fs, fsLog, ctxDone, cur, sem,
                   wg, currentFileIdx, launchedAfterCancel, mpc, doneClosed,
                   logged, outcome>>

InitGroup ==
    /\ flags = DefaultFlags
    /\ sourceDir = SrcRoot
    /\ targetDir = TgtRoot
    /\ findingsIn \in SeqUpTo(GroupFindings, MaxInput)
    /\ m_findings = <<>>
    /\ fs = InitialFs
    /\ fsLog = {}
    /\ ctxDone = FALSE
    /\ dpc = "new"
    /\ pending = {}
    /\ cur = <<>>
    /\ sem = 0
    /\ wg = 0
    /\ currentFileIdx = 0
    /\ task = <<>>
    /\ launchedAfterCancel = {}
    /\ mpc = "select"
    /\ doneClosed = FALSE
    /\ logged = {}
    /\ outcome = "running"

NextGroup == M_NewMasker

SpecGroup == InitGroup /\ [][NextGroup]_vars

\* NewMasker has returned
Constructed == dpc # "new"

\* the findings of the input whose rewritten path is k, in input order
InputFor(k) ==
    LET Mine(f) == Replace(f.File, sourceDir, targetDir) = k
    IN  SelectSeq(findingsIn, Mine)

\* C28: the groups partition the input: the keys are the rewritten paths of the
\* input findings, and the group of a key holds the input findings of that
\* rewritten path, each once, in input order.
C28_GroupsPartitionInput ==
    Constructed
    => /\ DOMAIN m_findings =
              {Replace(findingsIn[i].File, sourceDir, targetDir) :
                  i \in 1..Len(findingsIn)}
       /\ \A k \in DOMAIN m_findings : m_findings[k] = InputFor(k)

\* C28's case: three findings in two groups, the group of two holding
\* findings of different source paths
C28_Witness ==
    /\ Constructed
    /\ Len(findingsIn) = 3
    /\ Cardinality(DOMAIN m_findings) = 2
    /\ \E k \in DOMAIN m_findings :
          /\ Len(m_findings[k]) = 2
          /\ m_findings[k][1].File # m_findings[k][2].File
          /\ m_findings[k][1] = findingsIn[1]
          /\ m_findings[k][2] = findingsIn[3]

\* C29: a finding whose file begins with the source root is grouped under the
\* target root followed by the rest of its path.
C29_PrefixOnly ==
    Constructed
    => \A i \in 1..Len(findingsIn) :
           LET file == findingsIn[i].File
               rest == SubSeq(file, Len(sourceDir) + 1, Len(file))
           IN  HasPrefix(file, sourceDir)
               => /\ targetDir \o rest \in DOMAIN m_findings
                  /\ \E j \in 1..Len(m_findings[targetDir \o rest]) :
                         m_findings[targetDir \o rest][j] = findingsIn[i]

\* C30: every finding stored in a group has the group's key as its file.
C30_FileIsKey ==
    \A k \in DOMAIN m_findings :
        \A i \in 1..Len(m_findings[k]) : m_findings[k][i].File = k

-----------------------------------------------------------------------------
(* The life of a file group, the returned value, cancellation *)

\* how far the goroutine of a group has come
Rank(pc) ==
    CASE pc = "idle" -> 0
      [] pc = "classify" -> 1
      [] pc = "handleText" -> 2
      [] pc = "work" -> 3
      [] pc \in {"remove", "panicked"} -> 4
      [] pc = "create" -> 5
      [] pc = "write" -> 6
      [] pc = "placeholder" -> 7
      [] pc \in {"ok", "err"} -> 8
      [] pc \in {"done", "failed"} -> 9

\* C21: a group goes from pending to classifying to its handling (or past it,
\* when skipped) to done or failed and never back: it is launched once, from
\* pending into classifying, and a group that is done or failed stays as it is.
C21_NoWayBack ==
    [][\A k \in Groups :
          /\ Rank(task'[k].pc) >= Rank(task[k].pc)
          /\ (task[k].pc = "idle" /\ task'[k].pc # "idle")
                 => task'[k].pc = "classify"
          /\ task[k].pc = "classify" =>
                 task'[k].pc \in {"classify", "remove", "handleText", "ok", "err"}
          /\ task[k].pc \in {"done", "failed"} => task'[k] = task[k]]_vars

\* C21's case: three groups have ended, one skipped, one handled, one failed
C21_Witness ==
    /\ Cardinality(Groups) = 3
    /\ \A k \in Groups : Terminal(k)
    /\ \E k \in Groups : task[k].pc = "done" /\ task[k].handler = "nil"
    /\ \E k \in Groups : task[k].pc = "done" /\ task[k].handler = "binary"
    /\ \E k \in Groups : task[k].pc = "failed"

\* an entry of the returned value without the paths
WithoutFile(entry) ==
    [i \in 1..Len(entry) |->
        [RuleID |-> entry[i].RuleID, StartLine |-> entry[i].StartLine,
         EndLine |-> entry[i].EndLine, Match |-> entry[i].Match]]

\* C22: the returned value tells a failed file from a successful one: the
\* entry of a file that failed differs, in more than the path, from the entry
\* of a file that succeeded.
C22_OutcomeRecorded ==
    Returned
    => \A k1, k2 \in DOMAIN ReturnValue :
           (task[k1].pc = "done" /\ task[k2].pc = "failed")
           => WithoutFile(ReturnValue[k1]) # WithoutFile(ReturnValue[k2])

\* C23: once the context is cancelled, a HandleText call in flight masks no
\* further chunk and splices no further result.
C23_StopsAtCheckpoint ==
    [][\A k \in Groups :
          (ctxDone /\ task[k].pc = "work")
          => /\ task'[k].computed \subseteq task[k].computed
             /\ task'[k].arr = task[k].arr
             /\ task'[k].llen = task[k].llen]_vars

\* the process has ended by main returning or by os.Exit
Exited == outcome \in {"exit0", "exit1"}

\* C24: a run whose processing saw the cancellation exits with status 1, has
\* logged the interruption and neither the summary nor the report; a run that
\* was never cancelled exits with status 0 with the summary logged and the
\* report written.
C24_ExitStatus ==
    /\ "was interrupted" \in logged
           => /\ "processed" \notin logged
              /\ "saved" \notin logged
              /\ Exited => outcome = "exit1"
    /\ (Exited /\ ~ctxDone)
           => /\ outcome = "exit0"
              /\ "processed" \in logged
              /\ "saved" \in logged

-----------------------------------------------------------------------------
(* HandleText: workers and collector, line count, configuration *)

\* C25: whenever a worker has masked a chunk, what it used as the chunk's
\* content were the lines of the original buffer in the finding's range.
C25_WorkersReadOriginal ==
    \A c \in task[TestFile].computed :
        c.content = ResultOf(findingsIn[c.i], InputLines).content

\* C26: after HandleText has returned nil for findings that lie in the file,
\* the written file has no more lines than the buffer had, and as many when
\* no match holds a newline.
C26_LineCount ==
    (/\ TextReturnedNil
     /\ \A i \in 1..Len(findingsIn) : InBounds(findingsIn[i], Len(InputLines)))
    => /\ Len(WrittenLines) <= Len(InputLines)
       /\ (\A i \in 1..Len(findingsIn) : ~Contains(findingsIn[i].Match, <<NL>>))
              => Len(WrittenLines) = Len(InputLines)

\* C27: with the mask "[MASKED]" and the newline "\n" configured, the line of
\* a single one-line finding is written with its match replaced by "[MASKED]".
C27_ConfiguredMask ==
    (/\ TextReturnedNil
     /\ Len(findingsIn) = 1
     /\ OnOneLine(findingsIn[1], InputLines))
    => Split(FileAt(TestFile), TestNewline)[findingsIn[1].StartLine] =
           Replace(InputLines[findingsIn[1].StartLine], findingsIn[1].Match,
                   TestMask)

-----------------------------------------------------------------------------
(* The progress index *)

\* the groups whose goroutine has been started
Launched == {k \in Groups : task[k].pc # "idle"}

\* C31: the progress indices of the started groups are distinct, lie in 1..N
\* for N file groups, and are handed out in launch order without a gap or a
\* lost update: the groups started so far hold exactly the indices 1..n, and
\* the counter is at the index of the group last picked.
C31_ProgressIndex ==
    /\ \A k \in Launched : task[k].idx \in 1..Cardinality(Groups)
    /\ \A k1, k2 \in Launched : k1 # k2 => task[k1].idx # task[k2].idx
    /\ {task[k].idx : k \in Launched} = 1..Cardinality(Launched)
    /\ currentFileIdx =
           Cardinality(Launched) + (IF dpc = "acquire" THEN 1 ELSE 0)
    /\ currentFileIdx = Cardinality(Groups \ pending)

\* C31's case: three groups, more than there are slots, have been started
\* while earlier ones were still running or had ended, and hold 1, 2 and 3
C31_Witness ==
    /\ Cardinality(Groups) = 3
    /\ Launched = Groups
    /\ {task[k].idx : k \in Groups} = {1, 2, 3}
    /\ \E k \in Groups : task[k].idx = 1 /\ task[k].pc = "write"
    /\ \E k \in Groups : task[k].idx = 3 /\ task[k].pc = "classify"

-----------------------------------------------------------------------------
(* HandleText: clashing findings, round trip, occurrences, the empty buffer *)

\* every finding lies in the buffer
AllInBounds ==
    \A i \in 1..Len(findingsIn) : InBounds(findingsIn[i], Len(InputLines))

\* two findings of the list have overlapping or adjacent line ranges
Clash(fnd) ==
    \E i, j \in 1..Len(fnd) :
        /\ i < j
        /\ fnd[i].StartLine <= fnd[j].EndLine + 1
        /\ fnd[j].StartLine <= fnd[i].EndLine + 1

\* C32: with two findings whose line ranges overlap or are adjacent HandleText
\* fails: it does not come to rewrite the file and does not return nil.
C32_ClashFails ==
    (AllInBounds /\ Clash(findingsIn))
    => task[TestFile].pc \notin {"remove", "create", "write", "ok", "done"}

\* no finding's match occurs in the text of its line range
NoOccurrence ==
    \A i \in 1..Len(findingsIn) :
        ~Contains(Join(SubSeq(InputLines, findingsIn[i].StartLine,
                              findingsIn[i].EndLine), <<NL>>),
                  findingsIn[i].Match)

\* C33: the buffer split into lines and rejoined is the buffer; and when no
\* finding's match occurs in its range, the file HandleText has written is
\* the buffer, byte for byte.
C33_RoundTrip ==
    /\ Join(Split(task[TestFile].buf, <<NL>>), <<NL>>) = task[TestFile].buf
    /\ (TextReturnedNil /\ AllInBounds /\ NoOccurrence)
           => FileAt(TestFile) = task[TestFile].buf

\* the lines with every occurrence of each finding's match replaced on the
\* lines of that finding's range, and every other line as it was
MaskedRanges(lines, fnd) ==
    [n \in 1..Len(lines) |->
        IF \E i \in 1..Len(fnd) : fnd[i].StartLine <= n /\ n <= fnd[i].EndLine
        THEN LET i == CHOOSE i \in 1..Len(fnd) :
                          fnd[i].StartLine <= n /\ n <= fnd[i].EndLine
             IN  Replace(lines[n], fnd[i].Match, placeholderMask)
        ELSE lines[n]]

\* C36: for findings in the buffer, with ranges that do not overlap and
\* matches that hold no newline, the written file has, line for line, every
\* occurrence of a match replaced on the lines of its range, and every line
\* outside the ranges as it was.
C36_EveryOccurrenceInRange ==
    (/\ TextReturnedNil
     /\ AllInBounds
     /\ NonOverlapping(findingsIn)
     /\ \A i \in 1..Len(findingsIn) : ~Contains(findingsIn[i].Match, <<NL>>))
    => WrittenLines = MaskedRanges(InputLines, findingsIn)

\* HandleText was given an empty buffer and one finding on line 1
EmptyBufferCase ==
    /\ task[TestFile].buf = <<>>
    /\ Len(findingsIn) = 1
    /\ findingsIn[1].StartLine = 1
    /\ findingsIn[1].EndLine = 1

\* C37: HandleText on an empty buffer with a finding on line 1 returns no
\* error and leaves the file with no content.
C37_EmptyBuffer ==
    EmptyBufferCase
    => /\ task[TestFile].pc \notin {"err", "failed", "panicked"}
       /\ TextReturnedNil => FileAt(TestFile) = <<>>

-----------------------------------------------------------------------------
(* HandleText: termination *)

\* HandleText called with findings that lie in the buffer
InitTextLive == InitText /\ AllInBounds

\* every goroutine that can take a step is scheduled in the end
SpecTextLive == InitTextLive /\ [][NextText]_vars /\ WF_vars(NextText)

\* the chunks still in workChan
Queued(k) == Len(m_findings[k]) - task[k].next + 1

\* every finding is one chunk in workChan, in a worker's hands, or one result
\* in resultChan or spliced; neither channel holds more than its capacity;
\* resultChan is closed only when the workers have finished; and the file is
\* rewritten only when every result has been spliced
ChannelsInOrder ==
    LET t == task[TestFile]
        n == Len(m_findings[TestFile])
    IN  /\ t.pc # "panicked"
        /\ t.pc # "handleText" =>
               /\ Queued(TestFile) + Cardinality(t.got) + Cardinality(t.computed)
                      + Len(t.resultChan) + t.spliced = n
               /\ Cardinality({c.i : c \in t.computed}) = Cardinality(t.computed)
               /\ t.got \cap {c.i : c \in t.computed} = {}
               /\ Queued(TestFile) >= 0
               /\ Len(t.resultChan) <= n
               /\ t.closed =>
                      Queued(TestFile) = 0 /\ t.got = {} /\ t.computed = {}
        /\ t.pc \notin {"handleText", "work"} =>
               t.closed /\ t.resultChan = <<>> /\ t.spliced = n

-----------------------------------------------------------------------------
(* ProcessWithContext: termination *)

\* findings whose handling returns: a text file, a pkcs12 file, an empty
\* file, a missing file and a file that is not valid UTF-8
LiveFindings == {FindingUniverse[i] : i \in {1, 3, 4, 5, 6}}

\* a run on a report of such findings
InitLive ==
    /\ Init
    /\ \A i \in 1..Len(findingsIn) : findingsIn[i] \in LiveFindings

\* the steps of a run in which no termination signal arrives
NextLive ==
    \/ D_Check
    \/ D_Launch
    \/ D_Wait
    \/ P_AfterProcess
    \/ P_WriteReport
    \/ M_Select
    \/ \E k \in DOMAIN m_findings : ParseFileType(k)
    \/ \E k \in DOMAIN m_findings : HT_Chunks(k)
    \/ \E k \in DOMAIN m_findings : HT_WorkerRecv(k)
    \/ \E k \in DOMAIN m_findings : \E i \in task[k].got : HT_WorkerCompute(k, i)
    \/ \E k \in DOMAIN m_findings : \E c \in task[k].computed : HT_WorkerSend(k, c)
    \/ \E k \in DOMAIN m_findings : HT_Close(k)
    \/ \E k \in DOMAIN m_findings : HT_Collect(k)
    \/ \E k \in DOMAIN m_findings : HT_CollectDone(k)
    \/ \E k \in DOMAIN m_findings : RF_Remove(k)
    \/ \E k \in DOMAIN m_findings : RF_Create(k)
    \/ \E k \in DOMAIN m_findings : RF_Write(k)
    \/ \E k \in DOMAIN m_findings : HB_Placeholder(k)
    \/ \E k \in DOMAIN m_findings : TaskReturn(k)

\* every goroutine that can take a step is scheduled in the end
SpecLive == InitLive /\ [][NextLive]_vars /\ WF_vars(NextLive)

\* every group is not yet visited, waiting for its slot, or started, and
\* holds at most one of the tokens in the semaphore
DispatchedOnce ==
    /\ Cardinality(pending) + Cardinality(Launched)
           + (IF dpc = "acquire" THEN 1 ELSE 0) = Cardinality(Groups)
    /\ pending \cap Launched = {}
    /\ dpc = "acquire" => cur \notin pending \cup Launched
    /\ sem = Cardinality({k \in Groups : InFlight(k)})

\* C38: with no cancellation and handlers that return, every group is
\* dispatched once and ProcessWithContext returns in the end, with every group
\* done or failed, also with more groups than slots.
C38_EventuallyReturns ==
    /\ []DispatchedOnce
    /\ <>(Returned /\ Launched = Groups /\ \A k \in Groups : Terminal(k))

\* C38's case: an uncancelled run with more groups than slots has returned,
\* every group ended and every token taken back
C38_Witness ==
    /\ Cardinality(Groups) > NumCPU
    /\ Returned
    /\ \A k \in Groups : Terminal(k)
    /\ sem = 0 /\ wg = 0
    /\ ~ctxDone

-----------------------------------------------------------------------------
(* HandleBinary when a file operation fails *)

\* C34's mutant of RF_Create_Fails: the error of os.Create is dropped and the
\* caller goes on
RF_Create_Fails_GoesOn(k) ==
    /\ Running
    /\ task[k].pc = "create"
    /\ task' = [task EXCEPT ![k].pc = AfterRecreate(k)]
    /\ UNCHANGED <<flags, sourceDir, targetDir, findingsIn, m_findings, fs, fsLog,
                   ctxDone, procVars, outcome>>

\* RecreateFile, lines 190-193: os.Create returns an error; RecreateFile and
\* its caller return it (lines 210-212, 298-300)
RF_Create_Fails(k) ==
    /\ Running
    /\ task[k].pc = "create"
    /\ task' = [task EXCEPT ![k].pc = "err"]
    /\ UNCHANGED <<flags, sourceDir, targetDir, findingsIn, m_findings, fs, fsLog,
                   ctxDone, procVars, outcome>>

\* HandleBinary, lines 215-217: os.WriteFile returns an error, having opened
\* and truncated the placeholder file or not
HB_Placeholder_Fails(k) ==
    /\ Running
    /\ task[k].pc = "placeholder"
    /\ LET txtFile == TxtFile(task[k].rfPath)
       IN  \/ /\ UNCHANGED <<fs, fsLog>>
              /\ task' = [task EXCEPT ![k].pc = "err"]
           \/ /\ fs' = FsPut(txtFile, <<>>)
              /\ fsLog' = fsLog \cup {<<"truncate", txtFile>>}
              /\ task' = [task EXCEPT ![k] =
                     [@ EXCEPT !.pc = "err",
                               !.ops = @ \cup {<<"truncate", txtFile>>}]]
    /\ UNCHANGED <<flags, sourceDir, targetDir, findingsIn, m_findings, ctxDone,
                   procVars, outcome>>

\* a pkcs12 file with some content, or no file at all, and something or
\* nothing at the placeholder path
InitFault ==
    /\ flags = DefaultFlags
    /\ sourceDir = <<>>
    /\ targetDir = <<>>
    /\ \E path \in BinFiles :
          /\ findingsIn = <<Finding(PKCS12, path, 0, 0, <<>>)>>
          /\ \E c \in BinContents \cup {NoFile}, t \in TxtContents(path) :
                fs = [p \in {path, TxtFile(path)} |-> IF p = path THEN c ELSE t]
    /\ m_findings = NewMasker(sourceDir, targetDir, findingsIn)
    /\ task = [k \in DOMAIN m_findings |-> [IdleTask EXCEPT !.pc = "classify"]]
    /\ fsLog = {}
    /\ ctxDone = FALSE
    /\ dpc = "none"
    /\ pending = {}
    /\ cur = <<>>
    /\ sem = 0
    /\ wg = 0
    /\ currentFileIdx = 0
    /\ launchedAfterCancel = {}
    /\ mpc = "none"
    /\ doneClosed = FALSE
    /\ logged = {}
    /\ outcome = "running"

NextFault ==
    \/ \E k \in DOMAIN m_findings : ParseFileType(k)
    \/ \E k \in DOMAIN m_findings : RF_Remove(k)
    \/ \E k \in DOMAIN m_findings : RF_Create(k)
    \/ \E k \in DOMAIN m_findings : RF_Create_Fails(k)
    \/ \E k \in DOMAIN m_findings : HB_Placeholder(k)
    \/ \E k \in DOMAIN m_findings : HB_Placeholder_Fails(k)
    \/ \E k \in DOMAIN m_findings : TaskReturn(k)

SpecFault == InitFault /\ [][NextFault]_vars

\* the goroutine of k has ended, or is about to end, with an error
Failing(k) == task[k].pc \in {"err", "failed"}

\* C34: a binary group whose delete or create failed fails, and nothing was
\* done at the placeholder path; a group whose placeholder write failed
\* fails, and its original stays the empty file RecreateFile made; and a
\* group ends with success only when none of the three operations failed.
C34_BinaryFailure ==
    \A k \in Groups :
        task[k].handler = "binary" =>
            /\ task[k].pc \in {"ok", "done"} =>
                   {<<"remove", k>>, <<"create", k>>, <<"write", TxtFile(k)>>}
                       \subseteq task[k].ops
            /\ (Failing(k) /\ <<"create", k>> \notin task[k].ops) =>
                   /\ \A e \in fsLog : e[2] # TxtFile(k)
                   /\ <<"remove", k>> \notin task[k].ops => fsLog = {}
            /\ (Failing(k) /\ <<"create", k>> \in task[k].ops) =>
                   /\ FileAt(k) = <<>>
                   /\ <<"write", TxtFile(k)>> \notin task[k].ops
                   /\ \A e \in fsLog : e[2] = k => e[1] \in {"remove", "create"}

\* C34's case: the placeholder write failed after a file with content was
\* emptied; the group has failed and the original is the empty file
C34_Witness ==
    \E k \in Groups :
        /\ task[k].pc = "failed"
        /\ {<<"remove", k>>, <<"create", k>>} \subseteq task[k].ops
        /\ FileAt(k) = <<>>
        /\ FileAt(TxtFile(k)) = <<"o">>

-----------------------------------------------------------------------------
(* main from the command line on *)

\* the values the flags may have; "src/" is cleaned to "src"
FindingsFlags == {<<>>, <<"gitleaks">>, <<"nofile">>}

SourceFlags == {<<>>, SrcRoot, SrcRoot \o <<"/">>}

TargetFlags == {<<>>, TgtRoot}

LogLevelFlags == {<<"I", "N", "F", "O">>, <<"d", "e", "b", "u", "g">>,
                  <<"L", "O", "U", "D">>}

\* the findings file at "gitleaks": a text file and a pkcs12 file
MainReport == <<FindingUniverse[1], FindingUniverse[3]>>

\* what loadFindings reads at a path (main.go, lines 45-58)
ReportAt(path) == IF path = <<"gitleaks">> THEN MainReport ELSE NoFile

\* the source tree alone, before main has copied it
SourceTree == [p \in {SrcRoot \o n : n \in DOMAIN TreeFiles} |-> InitialFs[p]]

\* os.Stat(dir) finds something
DirExists(dir) == \E p \in DOMAIN fs : fs[p] # NoFile /\ HasPrefix(p, dir)

\* cp.Copy(src, dst): every file under src, at the same place under dst
CopyTree(src, dst) ==
    LET from == {p \in DOMAIN fs : fs[p] # NoFile /\ HasPrefix(p, src)}
        To(p) == dst \o SubSeq(p, Len(src) + 1, Len(p))
    IN  [q \in DOMAIN fs \cup {To(p) : p \in from} |->
            IF \E p \in from : To(p) = q
            THEN fs[CHOOSE p \in from : To(p) = q]
            ELSE fs[q]]

\* main, lines 81-101: parse the flags; on an error print it and exit 1, else
\* start the watcher and the processing goroutine
M_ParseFlags ==
    /\ Running
    /\ mpc = "flags"
    /\ IF FlagsError(flags) # "none"
       THEN /\ logged' = logged \cup {"usage"}
            /\ mpc' = "exited"
            /\ outcome' = "exit1"
            /\ UNCHANGED <<sourceDir, targetDir, dpc>>
       ELSE /\ sourceDir' = Clean(flags.source)
            /\ targetDir' = Clean(flags.target)
            /\ mpc' = "select"
            /\ dpc' = "load"
            /\ UNCHANGED <<logged, outcome>>
    /\ UNCHANGED <<flags, findingsIn, m_findings, fs, fsLog, ctxDone, pending, cur,
                   sem, wg, currentFileIdx, task, launchedAfterCancel, doneClosed>>

\* the processing goroutine, lines 103-106: loadFindings, log.Fatal on an error
P_LoadFindings ==
    /\ Running
    /\ dpc = "load"
    /\ LET report == ReportAt(Clean(flags.findings))
       IN  IF report = NoFile
           THEN /\ outcome' = "exit1"
                /\ logged' = logged \cup {"fatal"}
                /\ UNCHANGED <<findingsIn, dpc>>
           ELSE /\ findingsIn' = report
                /\ dpc' = "stat"
                /\ UNCHANGED <<logged, outcome>>
    /\ UNCHANGED <<flags, sourceDir, targetDir, m_findings, fs, fsLog, ctxDone,
                   pending, cur, sem, wg, currentFileIdx, task,
                   launchedAfterCancel, mpc, doneClosed>>

\* the processing goroutine, lines 119-130: copy the source tree when the
\* target directory does not exist
P_CopyTree ==
    /\ Running
    /\ dpc = "stat"
    /\ IF DirExists(targetDir)
       THEN /\ logged' = logged \cup {"exists"}
            /\ dpc' = "new"
            /\ UNCHANGED <<fs, outcome>>
       ELSE IF DirExists(sourceDir)
       THEN /\ fs' = CopyTree(sourceDir, targetDir)
            /\ logged' = logged \cup {"copied"}
            /\ dpc' = "new"
            /\ UNCHANGED outcome
       ELSE /\ outcome' = "exit1"
            /\ logged' = logged \cup {"fatal"}
            /\ UNCHANGED <<fs, dpc>>
    /\ UNCHANGED <<flags, sourceDir, targetDir, findingsIn, m_findings, fsLog,
                   ctxDone, pending, cur, sem, wg, currentFileIdx, task,
                   launchedAfterCancel, mpc, doneClosed>>

InitMain ==
    /\ flags \in [findings : FindingsFlags, source : SourceFlags,
                   target : TargetFlags, logLevel : LogLevelFlags]
    /\ sourceDir = <<>>
    /\ targetDir = <<>>
    /\ findingsIn = <<>>
    /\ m_findings = <<>>
    /\ fs \in {SourceTree, InitialFs}
    /\ fsLog = {}
    /\ ctxDone = FALSE
    /\ dpc = "unstarted"
    /\ pending = {}
    /\ cur = <<>>
    /\ sem = 0
    /\ wg = 0
    /\ currentFileIdx = 0
    /\ task = <<>>
    /\ launchedAfterCancel = {}
    /\ mpc = "flags"
    /\ doneClosed = FALSE
    /\ logged = {}
    /\ outcome = "running"

NextMain ==
    \/ M_ParseFlags
    \/ P_LoadFindings
    \/ P_CopyTree
    \/ M_NewMasker
    \/ Next

SpecMain == InitMain /\ [][NextMain]_vars

\* the command line has an empty --findings, --source or --target, or a log
\* level that is none of the six
ConfigError ==
    \/ flags.findings = <<>>
    \/ flags.source = <<>>
    \/ flags.target = <<>>
    \/ \A level \in LogLevels : ToUpper(flags.logLevel) # level

\* C35: with a configuration error the process goes from the flags straight
\* to exit status 1: the processing goroutine is never started, no findings
\* are loaded, no tree is copied, and no file is deleted, created or written.
C35_ConfigErrorStopsRun ==
    ConfigError
    => /\ mpc \in {"flags", "exited"}
       /\ mpc = "exited" => outcome = "exit1"
       /\ outcome \in {"running", "exit1"}
       /\ dpc = "unstarted"
       /\ findingsIn = <<>>
       /\ m_findings = <<>>
       /\ fs \in {SourceTree, InitialFs}
       /\ fsLog = {}
       /\ logged \subseteq {"usage"}
       /\ ~ctxDone

\* C35's case: only --target is empty, the target tree is not there, and the
\* process has exited with status 1
C35_Witness ==
    /\ flags.target = <<>>
    /\ flags.findings = <<"gitleaks">>
    /\ flags.source = SrcRoot
    /\ ~BadLogLevel(flags.logLevel)
    /\ outcome = "exit1"
    /\ fs = SourceTree

====
